---- MODULE Spec2Model ----
(***************************************************************************)
(* A model of querybuilder/search.py: the Search facade, which compiles a  *)
(* JSON filter/order specification into a query and runs it paginated.     *)
(*                                                                         *)
(* JSON values are tagged records; Python strings are sequences of         *)
(* one-character strings so that rindex, startswith and replace are        *)
(* computed as the code computes them.  A Python exception is a result     *)
(* record whose st field names the exception.                              *)
(***************************************************************************)
EXTENDS Integers, Sequences, FiniteSets, TLC

VARIABLES
    session,    \* the backend table the session queries (rows of entity A)
    filter_by,  \* self.filter_by
    order_by,   \* self.order_by
    page,       \* self.page
    per_page,   \* self.per_page
    all,        \* self.all
    nAccess,    \* accesses of the results property so far
    nCompile,   \* calls of query() so far
    nExec,      \* statements sent to the backend so far (count() and all())
    nFail,      \* accesses of results that raised
    last        \* what the last access of results produced

vars == <<session, filter_by, order_by, page, per_page, all,
          nAccess, nCompile, nExec, nFail, last>>

request == <<filter_by, order_by, page, per_page, all>>

----------------------------------------------------------------------------
(* Bounds of the model.                                                    *)

MaxAccess == 2
MaxSiblings == 3
MaxOrder == 2
MaxBranch == 2
MaxRows == 8
MaxPage == 4
MaxPerPage == 3
FilterRows == 4

----------------------------------------------------------------------------
(* JSON values.                                                            *)

Str(s) == [t |-> "str", s |-> s]
Num(n) == [t |-> "num", n |-> n]
None == [t |-> "none"]
List(items) == [t |-> "list", items |-> items]
Dict(pairs) == [t |-> "dict", pairs |-> pairs]
KV(k, v) == [k |-> k, v |-> v]

HasKey(d, k) == \E i \in 1..Len(d.pairs) : d.pairs[i].k = k

\* d[k]; only used where HasKey(d, k)
Item(d, k) == d.pairs[CHOOSE i \in 1..Len(d.pairs) : d.pairs[i].k = k].v

\* d.get(k, default)
Get(d, k, default) == IF HasKey(d, k) THEN Item(d, k) ELSE default

\* list(d.keys())[0]; only used where d has a key
FirstKey(d) == d.pairs[1].k

----------------------------------------------------------------------------
(* Python string operations used by search.py.                             *)

\* s.rindex(ch) as a 1-based position; 0 stands for the ValueError
RIndex(s, ch) ==
    IF \E i \in 1..Len(s) : s[i] = ch
    THEN CHOOSE i \in 1..Len(s) : s[i] = ch /\ \A j \in (i+1)..Len(s) : s[j] # ch
    ELSE 0

\* s.startswith(ch)
StartsWith(s, ch) == Len(s) >= 1 /\ s[1] = ch

\* s.replace(ch, '', 1): the first occurrence of ch removed, wherever it is
ReplaceFirst(s, ch) ==
    IF \E i \in 1..Len(s) : s[i] = ch
    THEN LET i == CHOOSE i \in 1..Len(s) : s[i] = ch /\ \A j \in 1..(i-1) : s[j] # ch
         IN  SubSeq(s, 1, i-1) \o SubSeq(s, i+1, Len(s))
    ELSE s

----------------------------------------------------------------------------
(* The model registry and the backend's data (external collaborators).     *)
(* Entity A has scalars x, y and a to-many relationship r to B; B has a    *)
(* scalar z and a to-one relationship s to C; C has a scalar w.            *)

ClsA == <<"A">>
ClsB == <<"B">>
ClsC == <<"C">>

Scalars(cls) ==
    CASE cls = ClsA -> {<<"x">>, <<"y">>}
      [] cls = ClsB -> {<<"z">>}
      [] cls = ClsC -> {<<"w">>}
      [] OTHER -> {}

Relationships(cls) ==
    CASE cls = ClsA -> {<<"r">>}
      [] cls = ClsB -> {<<"s">>}
      [] OTHER -> {}

\* commons.load_class succeeds
Loadable(m_cls_name) == m_cls_name \in {ClsA, ClsB, ClsC}

\* getattr(m_cls, field_name) succeeds
HasAttr(m_cls, field_name) == field_name \in Scalars(m_cls) \cup Relationships(m_cls)

\* the rows of B and C; a row's sc are its scalars, its rl its related row ids
TableB == << [id |-> 1, sc |-> (<<"z">> :> 0), rl |-> (<<"s">> :> {1})],
             [id |-> 2, sc |-> (<<"z">> :> 1), rl |-> (<<"s">> :> {2})] >>
TableC == << [id |-> 1, sc |-> (<<"w">> :> 0), rl |-> <<>>],
             [id |-> 2, sc |-> (<<"w">> :> 1), rl |-> <<>>] >>

\* row i of A: x and y run through all four combinations
RowA(i) == [id |-> i,
            sc |-> (<<"x">> :> (i % 2) @@ <<"y">> :> ((i \div 2) % 2)),
            rl |-> (<<"r">> :> (IF i % 3 = 0 THEN {} ELSE {1 + (i % 2)}))]
TableA(n) == [i \in 1..n |-> RowA(i)]

Target(cls, field) ==
    CASE cls = ClsA /\ field = <<"r">> -> TableB
      [] cls = ClsB /\ field = <<"s">> -> TableC
      [] OTHER -> <<>>

----------------------------------------------------------------------------
(* Results of the compiler's functions.  st is "ok" or the exception that  *)
(* left the function; why records, for the properties only,                *)
(* why the exception arose and the dotted path whose resolution raised;    *)
(* log is the sequence of Criterion constructions in the order made.       *)

NoPred == [t |-> "nopred"]
NoWhy == [cause |-> "", path |-> <<>>]

CrOk(pred, log) == [st |-> "ok", pred |-> pred, why |-> NoWhy, log |-> log]

CrRaise(exc, cause, path, log) ==
    [st |-> exc, pred |-> NoPred, why |-> [cause |-> cause, path |-> path], log |-> log]

----------------------------------------------------------------------------
(* Criterion and its operator table (criterion.py, not in search.py).      *)

OpEq == <<"e", "q">>
OpGte == <<">", "=">>
OpAny == <<"a", "n", "y">>
OpHas == <<"h", "a", "s">>
ComparisonOperators == {OpEq, OpGte}
RelationalOperators == {OpAny, OpHas}

\* Criterion(m_cls, field_name, field_value, operator).eval()
Criterion(m_cls, field_name, field_value, operator, log) ==
    IF ~HasAttr(m_cls, field_name)
    THEN CrRaise("AttributeError", "field", m_cls \o <<".">> \o field_name, log)
    ELSE IF operator.t # "str"
            \/ operator.s \notin ComparisonOperators \cup RelationalOperators
    THEN CrRaise("UnknownOperator", "operator", <<>>, log)
    ELSE LET pred == [t |-> "crit", cls |-> m_cls, field |-> field_name,
                      op |-> operator.s, val |-> field_value]
         IN  CrOk(pred, Append(log, [cls |-> m_cls, field |-> field_name,
                                     arg |-> field_value, out |-> pred]))

----------------------------------------------------------------------------
(* Search.__eval_criterion__                                               *)

\* eval_criterion without the recursion: a nested criterion is handed to the
\* operator as it stands
eval_criterion_unevaluated(field_name, field_value, operator) ==
    IF field_name.t # "str"
    THEN CrRaise("AttributeError", "no_field_name", <<>>, <<>>)
    ELSE IF RIndex(field_name.s, ".") = 0
    THEN CrRaise("ValueError", "no_dot", <<>>, <<>>)
    ELSE IF ~Loadable(SubSeq(field_name.s, 1, RIndex(field_name.s, ".") - 1))
    THEN CrRaise("AttributeError", "class", field_name.s, <<>>)
    ELSE Criterion(SubSeq(field_name.s, 1, RIndex(field_name.s, ".") - 1),
                   SubSeq(field_name.s, RIndex(field_name.s, ".") + 1, Len(field_name.s)),
                   field_value, operator, <<>>)

RECURSIVE eval_criterion(_, _, _)
eval_criterion(field_name, field_value, operator) ==
    IF field_name.t # "str"
    THEN \* None.rindex: AttributeError
         CrRaise("AttributeError", "no_field_name", <<>>, <<>>)
    ELSE
    LET i == RIndex(field_name.s, ".") IN
    IF i = 0
    THEN CrRaise("ValueError", "no_dot", <<>>, <<>>)
    ELSE
    LET m_cls_name == SubSeq(field_name.s, 1, i - 1)
        name == SubSeq(field_name.s, i + 1, Len(field_name.s))
    IN
    IF ~Loadable(m_cls_name)
    THEN CrRaise("AttributeError", "class", field_name.s, <<>>)
    ELSE IF field_value.t = "dict"
    THEN IF ~(HasKey(field_value, "field_name") /\ HasKey(field_value, "field_value")
              /\ HasKey(field_value, "operator"))
         THEN CrRaise("KeyError", "missing_key", <<>>, <<>>)
         ELSE LET inner == eval_criterion(Item(field_value, "field_name"),
                                          Item(field_value, "field_value"),
                                          Item(field_value, "operator"))
              IN  IF inner.st # "ok"
                  THEN inner
                  ELSE Criterion(m_cls_name, name, inner.pred, operator, inner.log)
    ELSE Criterion(m_cls_name, name, field_value, operator, <<>>)

----------------------------------------------------------------------------
(* Search.__eval_criteria__, __build_expressions__, __build_sql_sequence__ *)
(*                                                                         *)
(* A result holds the expressions built (isList: a Python list of them,    *)
(* otherwise one clause), the error_fields gathered, and for each entry of *)
(* error_fields, or for the exception that ended the call, why it arose.   *)

Unknown == <<"u", "n", "k", "n", "o", "w", "n">>

Ret0 == [st |-> "ok", exprs |-> <<>>, isList |-> TRUE, err |-> <<>>,
         why |-> <<>>, log |-> <<>>]

\* sqlalchemy's and_(*args) / or_(*args)
Clause(func, args) == [t |-> func, args |-> args]

RECURSIVE eval_criteria_from(_, _, _)
RECURSIVE build_expressions(_)
RECURSIVE build_sql_sequence_from(_, _, _, _)

\* eval_criteria_step with a bare except: every exception is taken for an
\* invalid field
eval_criteria_step_bare_except(items, k, acc, r) ==
    IF r.st = "ok"
    THEN eval_criteria_from(items, k + 1,
             [acc EXCEPT !.exprs = Append(@, r.pred), !.log = @ \o r.log])
    ELSE eval_criteria_from(items, k + 1,
             [acc EXCEPT !.err = Append(@, Get(items[k], "field_name", Str(Unknown))),
                         !.why = Append(@, r.why),
                         !.log = @ \o r.log])

\* the try/except of __eval_criteria__ for item k, r being what
\* __eval_criterion__ did; then the rest of the loop
eval_criteria_step(items, k, acc, r) ==
    IF r.st = "ok"
    THEN eval_criteria_from(items, k + 1,
             [acc EXCEPT !.exprs = Append(@, r.pred), !.log = @ \o r.log])
    ELSE IF r.st = "AttributeError"
    THEN eval_criteria_from(items, k + 1,
             [acc EXCEPT !.err = Append(@, Get(items[k], "field_name", Str(Unknown))),
                         !.why = Append(@, r.why),
                         !.log = @ \o r.log])
    ELSE [acc EXCEPT !.st = r.st, !.exprs = <<>>,
                     !.why = Append(@, r.why), !.log = @ \o r.log]

\* the for loop of __eval_criteria__ from item k on
eval_criteria_from(items, k, acc) ==
    IF k > Len(items)
    THEN acc
    ELSE eval_criteria_step(items, k, acc,
             eval_criterion(Get(items[k], "field_name", None),
                            Get(items[k], "field_value", None),
                            Get(items[k], "operator", None)))

eval_criteria(criteria) ==
    eval_criteria_from(IF criteria.t = "list" THEN criteria.items ELSE <<criteria>>,
                       1, Ret0)

\* one round of the loop of __build_sql_sequence__: subquery is extended into
\* subqueries (a list) or appended to it (a clause); an exception leaves the loop
build_sql_sequence_step(node, func, k, acc, subquery) ==
    IF subquery.st # "ok"
    THEN [subquery EXCEPT !.exprs = <<>>, !.log = acc.log \o @]
    ELSE build_sql_sequence_from(node, func, k + 1,
             [acc EXCEPT !.exprs = @ \o subquery.exprs, !.log = @ \o subquery.log])

\* the for loop of __build_sql_sequence__ from item k on, then func(*subqueries)
build_sql_sequence_from(node, func, k, acc) ==
    IF k > Len(node.items)
    THEN [acc EXCEPT !.exprs = <<Clause(func, acc.exprs)>>, !.isList = FALSE]
    ELSE build_sql_sequence_step(node, func, k, acc, build_expressions(node.items[k]))

build_sql_sequence(node, func) == build_sql_sequence_from(node, func, 1, Ret0)

\* normalize wrapping a bare sequence under the other combinator
normalize_as_or(filter_by_) ==
    IF filter_by_.t = "list" THEN Dict(<<KV("or", filter_by_)>>) ELSE filter_by_

\* a bare sequence becomes {'and': [...]}
normalize(filter_by_) ==
    IF filter_by_.t = "list" THEN Dict(<<KV("and", filter_by_)>>) ELSE filter_by_

\* operator_of taking the last key instead of the first
operator_of_last(fb) == fb.pairs[Len(fb.pairs)].k

\* operator = list(filter_by.keys())[0]
operator_of(fb) == FirstKey(fb)

\* the else branch of __build_expressions__ after __eval_criteria__ returned r
throw_invalid_field(r) ==
    IF r.st = "ok" /\ Len(r.err) > 0
    THEN [r EXCEPT !.st = "InvalidField", !.exprs = <<>>]
    ELSE r

\* __build_expressions__ on the normalized mapping
build_normalized(fb) ==
    IF Len(fb.pairs) = 0
    THEN [Ret0 EXCEPT !.st = "IndexError"]
    ELSE IF operator_of(fb) \in {"and", "or"}
    THEN build_sql_sequence(Item(fb, operator_of(fb)), operator_of(fb))
    ELSE throw_invalid_field(eval_criteria(fb))

build_expressions(filter_by_) == build_normalized(normalize(filter_by_))

----------------------------------------------------------------------------
(* The query backend (sqlalchemy's Query): filter, order_by, count, slice, *)
(* all.  An and_/or_ without arguments renders as nothing and is skipped   *)
(* wherever it stands; a query whose criterion renders as nothing has no   *)
(* WHERE clause.                                                           *)

RECURSIVE Renders(_)
Renders(p) ==
    IF p.t \in {"and", "or"}
    THEN \E i \in 1..Len(p.args) : Renders(p.args[i])
    ELSE TRUE

RECURSIVE Holds(_, _)
Holds(p, row) ==
    CASE p.t = "and" -> \A i \in 1..Len(p.args) : Renders(p.args[i]) => Holds(p.args[i], row)
      [] p.t = "or" -> \E i \in 1..Len(p.args) : Renders(p.args[i]) /\ Holds(p.args[i], row)
      [] p.t = "crit" /\ p.op \in ComparisonOperators ->
            /\ p.field \in DOMAIN row.sc
            /\ p.val.t = "num"
            /\ IF p.op = OpEq THEN row.sc[p.field] = p.val.n
                              ELSE row.sc[p.field] >= p.val.n
      [] p.t = "crit" /\ p.op \in RelationalOperators ->
            /\ p.field \in DOMAIN row.rl
            /\ p.val.t = "crit"
            /\ \E j \in 1..Len(Target(p.cls, p.field)) :
                  /\ Target(p.cls, p.field)[j].id \in row.rl[p.field]
                  /\ Holds(p.val, Target(p.cls, p.field)[j])
      [] OTHER -> FALSE

Matches(where, row) == Renders(where) => Holds(where, row)

\* row a sorts strictly before row b under the ordering expressions from k on
RECURSIVE Less(_, _, _, _)
Less(a, b, order, k) ==
    IF k > Len(order)
    THEN FALSE
    ELSE IF order[k].field \in DOMAIN a.sc /\ a.sc[order[k].field] # b.sc[order[k].field]
    THEN IF order[k].dir = "asc"
         THEN a.sc[order[k].field] < b.sc[order[k].field]
         ELSE a.sc[order[k].field] > b.sc[order[k].field]
    ELSE Less(a, b, order, k + 1)

\* row i comes before row j in the result: ORDER BY is a stable sort, its
\* first expression the primary key, the table's order breaking ties
Before(table, order, i, j) ==
    \/ Less(table[i], table[j], order, 1)
    \/ ~Less(table[j], table[i], order, 1) /\ i < j

\* the rows at the positions in S, sorted
Sorted(table, order, S) ==
    LET rank == [i \in S |-> Cardinality({j \in S : Before(table, order, j, i)})]
    IN  [k \in 1..Cardinality(S) |-> table[CHOOSE i \in S : rank[i] = k - 1]]

\* SELECT ... WHERE q.where ORDER BY q.order
Rows(table, q) ==
    Sorted(table, q.order, {i \in 1..Len(table) : Matches(q.where, table[i])})

Ids(rows) == [i \in 1..Len(rows) |-> rows[i].id]

\* Query.count()
Count(rows) == Len(rows)

\* Query.slice(start, stop).all(): OFFSET start LIMIT stop - start
SliceAll(rows, start, stop) ==
    SubSeq(rows, start + 1, IF stop < Len(rows) THEN stop ELSE Len(rows))

\* Query.all()
All(rows) == rows

----------------------------------------------------------------------------
(* Search.query                                                            *)

QRet(st, where, order, branches, err, why, log) ==
    [st |-> st, where |-> where, order |-> order, branches |-> branches,
     err |-> err, why |-> why, log |-> log]

\* Query.filter(*criterion): the conjunction of its arguments
Filter(criteria) == Clause("and", criteria)

\* and_filter reading the wrong key
and_filter_from_or(fb) == Get(fb, "or", List(<<>>))

\* self.filter_by.get('or', []) and self.filter_by.get('and', [])
or_filter(fb) == Get(fb, "or", List(<<>>))
and_filter(fb) == Get(fb, "and", List(<<>>))

\* filter_by is a list: filter(self.__build_expressions__(self.filter_by))
filter_list(r) ==
    QRet(r.st, IF r.st = "ok" THEN Filter(r.exprs) ELSE NoPred, <<>>,
         <<"list">>, r.err, r.why, r.log)

\* filter_by is a mapping: the or branch is compiled, then the and branch, then
\* filter(or_(or_expression), and_(and_expression))
filter_map(or_expression, and_expression) ==
    IF or_expression.st # "ok"
    THEN QRet(or_expression.st, NoPred, <<>>, <<"or">>, or_expression.err,
              or_expression.why, or_expression.log)
    ELSE IF and_expression.st # "ok"
    THEN QRet(and_expression.st, NoPred, <<>>, <<"or", "and">>, and_expression.err,
              and_expression.why, or_expression.log \o and_expression.log)
    ELSE QRet("ok",
              Filter(<<Clause("or", or_expression.exprs),
                       Clause("and", and_expression.exprs)>>),
              <<>>, <<"or", "and">>, <<>>, <<>>,
              or_expression.log \o and_expression.log)

\* the filter half of query()
query_filter(fb) ==
    IF fb.t = "list"
    THEN filter_list(build_expressions(fb))
    ELSE filter_map(build_expressions(Dict(<<KV("or", or_filter(fb))>>)),
                    build_expressions(Dict(<<KV("and", and_filter(fb))>>)))

\* the part of the ordering token that is resolved
model_cls_field_name(ordering_criterion) == ReplaceFirst(ordering_criterion, "-")

direction(ordering_criterion) ==
    IF StartsWith(ordering_criterion, "-") THEN "desc" ELSE "asc"

\* the body of the ordering loop for one token
order_by_expression(ordering_criterion) ==
    LET name == model_cls_field_name(ordering_criterion)
        i == RIndex(name, ".")
        m_cls_name == SubSeq(name, 1, i - 1)
        field_name == SubSeq(name, i + 1, Len(name))
        e == [cls |-> m_cls_name, field |-> field_name,
              dir |-> direction(ordering_criterion)]
    IN  IF i = 0
        THEN [st |-> "ValueError", e |-> e, why |-> [cause |-> "no_dot", path |-> name]]
        ELSE IF ~Loadable(m_cls_name)
        THEN [st |-> "AttributeError", e |-> e, why |-> [cause |-> "class", path |-> name]]
        ELSE IF ~HasAttr(m_cls_name, field_name)
        THEN [st |-> "AttributeError", e |-> e, why |-> [cause |-> "field", path |-> name]]
        ELSE [st |-> "ok", e |-> e, why |-> NoWhy]

RECURSIVE order_by_expressions(_, _, _)

\* one round of the ordering loop: an exception leaves query()
order_by_step(ordering_criteria, k, acc, r) ==
    IF r.st # "ok"
    THEN [st |-> r.st, order |-> <<>>, why |-> <<r.why>>]
    ELSE order_by_expressions(ordering_criteria, k + 1, Append(acc, r.e))

order_by_expressions(ordering_criteria, k, acc) ==
    IF k > Len(ordering_criteria)
    THEN [st |-> "ok", order |-> acc, why |-> <<>>]
    ELSE order_by_step(ordering_criteria, k, acc,
                       order_by_expression(ordering_criteria[k]))

\* data_query_set.order_by(*order_by_expressions)
query_order_by(f, o) ==
    IF o.st # "ok"
    THEN QRet(o.st, NoPred, <<>>, f.branches, <<>>, o.why, f.log)
    ELSE [f EXCEPT !.order = o.order]

\* the ordering half of query(), reached when the filter compiled
query_order(f, ob) ==
    IF f.st # "ok" THEN f ELSE query_order_by(f, order_by_expressions(ob, 1, <<>>))

query(fb, ob) == query_order(query_filter(fb), ob)

----------------------------------------------------------------------------
(* Search.results                                                          *)

Outcomes == {"ok", "count_fails", "all_fails"}

\* page_bounds with pages counted from 0
page_bounds_zero_based(pg, pp) == <<pp * pg, pp * (pg + 1)>>

\* start, stop of the page
page_bounds(pg, pp) == <<pp * (pg - 1), pp * pg>>

\* results raised st after execs backend statements
Raised(st, execs, query_set) ==
    [st |-> st, data |-> <<>>, count |-> 0, compiles |-> 1, execs |-> execs,
     q |-> query_set]

\* Returned calling query() once for count() and once more for the data
Returned_recompiled(rows, pg, pp, al, query_set) ==
    [st |-> "ok",
     data |-> Ids(IF ~al
                  THEN SliceAll(rows, pp * (pg - 1), pp * pg)
                  ELSE All(rows)),
     count |-> Count(rows),
     compiles |-> 2, execs |-> 2, q |-> query_set]

\* count(), slice() unless all, all(); rows are the rows the query selects
Returned(rows, pg, pp, al, query_set) ==
    [st |-> "ok",
     data |-> Ids(IF ~al
                  THEN SliceAll(rows, page_bounds(pg, pp)[1], page_bounds(pg, pp)[2])
                  ELSE All(rows)),
     count |-> Count(rows),
     compiles |-> 1, execs |-> 2, q |-> query_set]

\* results once query() has returned or raised; outcome is what the backend
\* does on this access
results_of(table, query_set, pg, pp, al, outcome) ==
    IF query_set.st # "ok"
    THEN Raised(query_set.st, 0, query_set)
    ELSE IF outcome = "count_fails"
    THEN Raised("BackendError", 1, query_set)
    ELSE IF outcome = "all_fails"
    THEN Raised("BackendError", 2, query_set)
    ELSE Returned(Rows(table, query_set), pg, pp, al, query_set)

\* one access of results
results(table, fb, ob, pg, pp, al, outcome) ==
    results_of(table, query(fb, ob), pg, pp, al, outcome)

----------------------------------------------------------------------------
(* The requests the model is run on.                                       *)

Path(cls, field) == cls \o <<".">> \o field

Crit(field_name, field_value, operator) ==
    Dict(<<KV("field_name", Str(field_name)), KV("field_value", field_value),
           KV("operator", Str(operator))>>)

\* well-formed criteria whose paths resolve
cx1 == Crit(Path(ClsA, <<"x">>), Num(1), OpEq)
cy1 == Crit(Path(ClsA, <<"y">>), Num(1), OpGte)
chain3 == Crit(Path(ClsA, <<"r">>),
               Crit(Path(ClsB, <<"s">>), Crit(Path(ClsC, <<"w">>), Num(1), OpEq), OpHas),
               OpAny)
\* well-formed criteria with a path that does not resolve: an unknown field,
\* an unknown entity, an unknown field one level down
bq == Crit(Path(ClsA, <<"q">>), Num(1), OpEq)
bz == Crit(Path(<<"Z">>, <<"x">>), Num(1), OpEq)
chain_bq == Crit(Path(ClsA, <<"r">>), Crit(Path(ClsB, <<"q">>), Num(1), OpEq), OpAny)
\* structurally invalid criteria
nodot == Crit(<<"A", "x">>, Num(1), OpEq)
nofield == Dict(<<KV("field_value", Num(1)), KV("operator", Str(OpEq))>>)
novalue == Dict(<<KV("field_name", Str(Path(ClsA, <<"x">>))), KV("operator", Str(OpEq))>>)
noop == Dict(<<KV("field_name", Str(Path(ClsA, <<"x">>))), KV("field_value", Num(1))>>)
nested_nokey == Crit(Path(ClsA, <<"r">>),
                     Dict(<<KV("field_name", Str(Path(ClsB, <<"z">>))),
                            KV("operator", Str(OpEq))>>),
                     OpAny)
nested_nodot == Crit(Path(ClsA, <<"r">>), Crit(<<"B", "z">>, Num(1), OpEq), OpAny)
\* an enclosing entity that does not load around a nested criterion without a key
masked_nokey == Crit(Path(<<"Z">>, <<"r">>),
                     Dict(<<KV("field_name", Str(Path(ClsB, <<"z">>))),
                            KV("operator", Str(OpEq))>>),
                     OpAny)

WellFormed == {cx1, chain3, bq, bz, chain_bq}
Invalid == {nodot, nofield, novalue, noop, nested_nokey, nested_nodot, masked_nokey}

\* a mapping with both keys, in either key order, as a combinator's child
and_or == Dict(<<KV("and", List(<<cx1>>)), KV("or", List(<<cy1>>))>>)
or_and == Dict(<<KV("or", List(<<cy1>>)), KV("and", List(<<cx1>>))>>)

Children == {cx1, cy1, bq, and_or, or_and}

SeqsUpTo(S, n) == UNION {[1..k -> S] : k \in 0..n}

\* bare lists: of well-formed criteria, and with a structurally invalid
\* criterion alone, before and after a well-formed one
ListFilters ==
    {List(items) : items \in SeqsUpTo(WellFormed, MaxSiblings)}
    \cup {List(<<m>>) : m \in Invalid}
    \cup {List(<<m, w>>) : m \in Invalid, w \in WellFormed}
    \cup {List(<<w, m>>) : m \in Invalid, w \in WellFormed}

\* top-level mappings: neither, one or both of the keys, in either order
\* the branches of n children
Branches(n) == {List(items) : items \in [1..n -> Children]}

\* two branches of at most MaxBranch children together
BranchPairs ==
    UNION {Branches(n1) \X Branches(n2) :
              n1 \in 0..MaxBranch, n2 \in 0..MaxBranch}

MapFilters ==
    {Dict(<<>>)}
    \cup {Dict(<<KV(k, b)>>) : k \in {"and", "or"},
                                b \in UNION {Branches(n) : n \in 0..MaxBranch}}
    \cup {Dict(<<KV("and", p[1]), KV("or", p[2])>>) :
              p \in {q \in BranchPairs : Len(q[1].items) + Len(q[2].items) <= MaxBranch}}
    \cup {Dict(<<KV("or", p[1]), KV("and", p[2])>>) :
              p \in {q \in BranchPairs : Len(q[1].items) + Len(q[2].items) <= MaxBranch}}

\* ordering tokens: ascending and descending, a '-' inside the path, a path
\* that does not resolve, a path without separator
Tokens == {<<"A", ".", "x">>, <<"-", "A", ".", "x">>,
           <<"A", ".", "y">>, <<"-", "A", ".", "y">>,
           <<"A", ".", "-", "x">>, <<"-", "A", ".", "-", "x">>,
           <<"A", ".", "q">>, <<"-", "A", "x">>}

Orderings == SeqsUpTo(Tokens, MaxOrder)

\* the constructor's defaults
DefaultPage == 1
DefaultPerPage == 10
NoFilter == List(<<>>)
NoOrder == <<>>

NoResult == [st |-> "none", data |-> <<>>, count |-> 0, compiles |-> 0, execs |-> 0,
             q |-> QRet("none", NoPred, <<>>, <<>>, <<>>, <<>>, <<>>)]

----------------------------------------------------------------------------
(* The state machine: a Search is constructed, then results is accessed.   *)

InitFilter ==
    /\ session = TableA(FilterRows)
    /\ filter_by \in ListFilters \cup MapFilters
    /\ order_by = NoOrder
    /\ page = DefaultPage /\ per_page = DefaultPerPage /\ all = FALSE

InitOrder ==
    /\ session = TableA(FilterRows)
    /\ filter_by = NoFilter
    /\ order_by \in Orderings
    /\ page = DefaultPage /\ per_page = DefaultPerPage /\ all = FALSE

InitPage ==
    /\ session \in {TableA(n) : n \in 0..MaxRows}
    /\ filter_by \in {NoFilter, List(<<cx1>>)}
    /\ order_by \in {NoOrder, <<<<"-", "A", ".", "y">>>>}
    /\ page \in 1..MaxPage /\ per_page \in 1..MaxPerPage /\ all \in BOOLEAN

Init ==
    /\ InitFilter \/ InitOrder \/ InitPage
    /\ nAccess = 0 /\ nCompile = 0 /\ nExec = 0 /\ nFail = 0
    /\ last = NoResult

\* what an access of results leaves behind
Accessed(r) ==
    /\ last' = r
    /\ nCompile' = nCompile + r.compiles
    /\ nExec' = nExec + r.execs
    /\ nFail' = nFail + (IF r.st = "ok" THEN 0 ELSE 1)
    /\ nAccess' = nAccess + 1
    /\ UNCHANGED <<session, filter_by, order_by, page, per_page, all>>

\* one access of the results property
Results(outcome) ==
    /\ nAccess < MaxAccess
    /\ Accessed(results(session, filter_by, order_by, page, per_page, all, outcome))

Next == \E outcome \in Outcomes : Results(outcome)

Spec == Init /\ [][Next]_vars

----------------------------------------------------------------------------
(* What the properties say about a filter specification, read off the      *)
(* specification itself.                                                   *)

HasKeys(c) == HasKey(c, "field_name") /\ HasKey(c, "field_value") /\ HasKey(c, "operator")

\* the dotted path resolves to an attribute of a loaded entity
Resolves(path) ==
    /\ RIndex(path, ".") > 0
    /\ Loadable(SubSeq(path, 1, RIndex(path, ".") - 1))
    /\ HasAttr(SubSeq(path, 1, RIndex(path, ".") - 1),
               SubSeq(path, RIndex(path, ".") + 1, Len(path)))

\* a well-formed criterion comparing a field with a literal
PlainCriterion(c) ==
    /\ c.t = "dict" /\ HasKeys(c)
    /\ Item(c, "field_name").t = "str" /\ RIndex(Item(c, "field_name").s, ".") > 0
    /\ Item(c, "field_value").t = "num"
    /\ Item(c, "operator").t = "str" /\ Item(c, "operator").s \in ComparisonOperators

Range(seq) == {seq[i] : i \in 1..Len(seq)}

\* the plain criteria of a list whose path does not resolve
Unresolved(items) ==
    {c \in Range(items) : ~Resolves(Item(c, "field_name").s)}

\* C1: for a bare list of plain criteria of which k >= 1 have a path that does
\* not resolve, the access raises one invalid-field error that names all k
\* paths, and no predicate is returned.
C1_AllBadFieldsNamed ==
    (/\ nAccess > 0
     /\ filter_by.t = "list"
     /\ \A c \in Range(filter_by.items) : PlainCriterion(c)
     /\ Unresolved(filter_by.items) # {})
    => /\ last.q.st = "InvalidField"
       /\ Range(last.q.err) = {Item(c, "field_name") : c \in Unresolved(filter_by.items)}
       /\ last.q.where = NoPred

\* C4: the invalid-field error names, for each resolution failure it reports,
\* exactly the dotted path whose resolution failed, at whatever depth.
C4_ErrorNamesFailedPath ==
    (/\ last.q.st = "InvalidField"
     /\ \A i \in 1..Len(last.q.why) : last.q.why[i].cause \in {"class", "field"})
    => \A i \in 1..Len(last.q.err) : last.q.err[i].s = last.q.why[i].path

\* the criteria of a chain, innermost first
RECURSIVE InnerFirst(_)
InnerFirst(c) ==
    IF Get(c, "field_value", None).t = "dict"
    THEN Append(InnerFirst(Item(c, "field_value")), c)
    ELSE <<c>>

RECURSIVE InnerFirstAll(_)
InnerFirstAll(items) ==
    IF Len(items) = 0
    THEN <<>>
    ELSE InnerFirst(Head(items)) \o InnerFirstAll(Tail(items))

\* construction j of the log is the one the criterion c asks for, and was
\* handed the predicate built just before it (the literal, if c is innermost)
BuiltFrom(log, j, c) ==
    /\ Path(log[j].cls, log[j].field) = Item(c, "field_name").s
    /\ log[j].out.val = log[j].arg
    /\ IF Get(c, "field_value", None).t = "dict"
       THEN j > 1 /\ log[j].arg = log[j-1].out
       ELSE log[j].arg = Get(c, "field_value", None)

\* C5: the predicates of a chain of nested criteria are constructed
\* innermost-first, and the value handed to the operator at each level is the
\* predicate just built for the level below (the literal at the innermost).
C5_InnermostFirst ==
    (filter_by.t = "list" /\ last.q.st = "ok")
    => /\ Len(last.q.log) = Len(InnerFirstAll(filter_by.items))
       /\ \A j \in 1..Len(last.q.log) :
             BuiltFrom(last.q.log, j, InnerFirstAll(filter_by.items)[j])

C5_Witness ==
    /\ filter_by.t = "list" /\ last.q.st = "ok"
    /\ chain3 \in Range(filter_by.items)
    /\ Len(last.q.log) >= 3

\* a criterion lacks a key, or a field_name lacks the separator, at any depth
RECURSIVE Malformed(_)
Malformed(c) ==
    \/ ~HasKeys(c)
    \/ RIndex(Item(c, "field_name").s, ".") = 0
    \/ Item(c, "field_value").t = "dict" /\ Malformed(Item(c, "field_value"))

RECURSIVE Verdict(_, _)
Verdict(c, top) ==
    IF top /\ ~HasKey(c, "field_name") THEN "unknown"
    ELSE IF ~top /\ ~HasKeys(c) THEN "KeyError"
    ELSE IF RIndex(Item(c, "field_name").s, ".") = 0 THEN "ValueError"
    ELSE IF ~Loadable(SubSeq(Item(c, "field_name").s, 1,
                             RIndex(Item(c, "field_name").s, ".") - 1)) THEN "masked"
    ELSE IF Get(c, "field_value", None).t = "dict"
    THEN Verdict(Item(c, "field_value"), FALSE)
    ELSE IF ~HasKey(c, "field_value") THEN "null"
    ELSE "other"

RowSat(c, row) ==
    LET path == Item(c, "field_name").s
        field == SubSeq(path, RIndex(path, ".") + 1, Len(path))
    IN  IF Item(c, "operator").s = OpEq
        THEN row.sc[field] = Item(c, "field_value").n
        ELSE row.sc[field] >= Item(c, "field_value").n

\* the ids of the rows of the table that satisfy P
IdsWhere(table, P(_)) == {table[i].id : i \in {i \in 1..Len(table) : P(table[i])}}

\* the rows of the table that satisfy the compiled filter of the last access
Filtered == {i \in 1..Len(session) : Matches(last.q.where, session[i])}

\* the ids of the rows the compiled query of the last access selects
Selected == {session[i].id : i \in Filtered}

OrList(fb) == Get(fb, "or", List(<<>>)).items
AndList(fb) == Get(fb, "and", List(<<>>)).items

\* a top-level mapping whose branches hold plain criteria that resolve
PlainMap(fb) ==
    /\ fb.t = "dict"
    /\ \A c \in Range(OrList(fb)) \cup Range(AndList(fb)) :
          PlainCriterion(c) /\ Resolves(Item(c, "field_name").s)

C2_Selected(row) ==
    /\ OrList(filter_by) = <<>> \/ \E c \in Range(OrList(filter_by)) : RowSat(c, row)
    /\ \A c \in Range(AndList(filter_by)) : RowSat(c, row)

\* C2: for a top-level mapping, query() compiles the or branch and the and
\* branch (a missing key as an empty list) and a row is selected iff (the
\* or-list is empty or some or-child holds) and every and-child holds.
C2_BothBranchesConjoined ==
    (nAccess > 0 /\ PlainMap(filter_by))
    => /\ last.q.st = "ok"
       /\ last.q.branches = <<"or", "and">>
       /\ last.st = "ok" =>
             /\ Selected = IdsWhere(session, C2_Selected)
             /\ last.count = Cardinality(IdsWhere(session, C2_Selected))

C2_Witness ==
    /\ PlainMap(filter_by) /\ last.st = "ok"
    /\ ~HasKey(filter_by, "and") /\ Len(OrList(filter_by)) = 2
    /\ last.count > 0 /\ last.count < Len(session)

\* C3: a bare list L and the mapping {"and": L} compile alike: the same outcome,
\* the same error, the same rows selected, through the expression compiler and
\* as the facade's filter_by.
C3_ListIsAnd ==
    (nAccess > 0 /\ filter_by.t = "list")
    => LET m == query(Dict(<<KV("and", filter_by)>>), order_by)
       IN  /\ m.st = last.q.st
           /\ m.err = last.q.err
           /\ m.st = "ok" =>
                 /\ {i \in 1..Len(session) : Matches(m.where, session[i])} = Filtered
                 /\ m.order = last.q.order
           /\ build_expressions(Dict(<<KV("and", filter_by)>>))
                 = build_expressions(filter_by)

C3_Witness ==
    /\ filter_by.t = "list" /\ Len(filter_by.items) >= 2
    /\ last.st = "ok"
    /\ last.count > 0 /\ last.count < Len(session)

\* every criterion of the filter is plain and resolves
RECURSIVE AllPlain(_)
AllPlain(n) ==
    IF n.t = "list"
    THEN \A c \in Range(n.items) : AllPlain(c)
    ELSE IF HasKey(n, "and") \/ HasKey(n, "or") \/ n.pairs = <<>>
    THEN \A c \in Range(OrList(n)) \cup Range(AndList(n)) : AllPlain(c)
    ELSE PlainCriterion(n) /\ Resolves(Item(n, "field_name").s)

\* a mapping with both keys, each with a non-empty array, somewhere below the top
RECURSIVE HasBothBelow(_, _)
HasBothBelow(n, top) ==
    IF n.t = "list"
    THEN \E c \in Range(n.items) : HasBothBelow(c, FALSE)
    ELSE IF HasKey(n, "and") \/ HasKey(n, "or")
    THEN \/ ~top /\ OrList(n) # <<>> /\ AndList(n) # <<>>
         \/ \E c \in Range(OrList(n)) \cup Range(AndList(n)) : HasBothBelow(c, FALSE)
    ELSE FALSE

\* both branches of every mapping count, wherever the mapping stands
RECURSIVE SatBoth(_, _)
SatBoth(n, row) ==
    IF n.t = "list"
    THEN \A c \in Range(n.items) : SatBoth(c, row)
    ELSE IF HasKey(n, "and") \/ HasKey(n, "or") \/ n.pairs = <<>>
    THEN /\ OrList(n) = <<>> \/ \E c \in Range(OrList(n)) : SatBoth(c, row)
         /\ \A c \in Range(AndList(n)) : SatBoth(c, row)
    ELSE RowSat(n, row)

\* both branches of the top-level mapping count; of a mapping below it, only
\* the branch of its first key
RECURSIVE SatFirst(_, _, _)
SatFirst(n, row, top) ==
    IF n.t = "list"
    THEN \A c \in Range(n.items) : SatFirst(c, row, FALSE)
    ELSE IF top
    THEN /\ OrList(n) = <<>> \/ \E c \in Range(OrList(n)) : SatFirst(c, row, FALSE)
         /\ \A c \in Range(AndList(n)) : SatFirst(c, row, FALSE)
    ELSE IF FirstKey(n) = "and"
    THEN \A c \in Range(AndList(n)) : SatFirst(c, row, FALSE)
    ELSE IF FirstKey(n) = "or"
    THEN \E c \in Range(OrList(n)) : SatFirst(c, row, FALSE)
    ELSE RowSat(n, row)

C10_SelectedBoth(row) == SatBoth(filter_by, row)
C10_SelectedFirst(row) == SatFirst(filter_by, row, TRUE)

\* C10: a mapping with both keys and non-empty arrays has both branches
\* evaluated and conjoined, at the top level and as a child of a combinator
\* at any depth, whatever the order of its keys.
C10_BothKeysAnywhere ==
    (AllPlain(filter_by) /\ last.st = "ok")
    => Selected = IdsWhere(session, C10_SelectedBoth)

\* C10 as amended: both branches are evaluated and conjoined for the top-level
\* filter_by mapping; of a mapping that is a child of a combinator only the
\* branch under its first key is evaluated, the other key is ignored.
C10_FirstKeyBelowTop ==
    (AllPlain(filter_by) /\ last.st = "ok")
    => Selected = IdsWhere(session, C10_SelectedFirst)

C10_Witness ==
    /\ AllPlain(filter_by) /\ last.st = "ok"
    /\ HasBothBelow(filter_by, TRUE)
    /\ IdsWhere(session, C10_SelectedFirst) # IdsWhere(session, C10_SelectedBoth)

\* the smaller of two numbers
Min(a, b) == IF a < b THEN a ELSE b

\* C7: count is the size of the whole filtered set whatever page, per_page and
\* all are; with all false, data is the records at positions
\* [(page-1)*per_page, min(page*per_page, count)) of the ordered filtered set,
\* empty when (page-1)*per_page >= count; with all true, data is the whole set.
C7_Pagination ==
    last.st = "ok"
    => LET whole == Ids(Rows(session, last.q))
           count == Cardinality(Filtered)
           lo == (page - 1) * per_page
           hi == Min(page * per_page, count)
       IN  /\ last.count = count
           /\ Len(whole) = count
           /\ all => last.data = whole
           /\ ~all =>
                 /\ Len(last.data) = (IF lo >= count THEN 0 ELSE hi - lo)
                 /\ \A k \in 1..Len(last.data) : last.data[k] = whole[lo + k]

C7_Witness ==
    /\ last.st = "ok" /\ ~all
    /\ page = 3 /\ per_page = 3 /\ last.count = 8
    /\ Len(last.data) = 2

\* the token without its leading direction marker
Unmarked(token) == IF StartsWith(token, "-") THEN Tail(token) ELSE token

\* C8: query() attaches one ordering expression per token, in the order of
\* the tokens; its direction is desc iff the token starts with '-'; the field
\* resolved is the token with only that leading '-' removed.
C8_OrderingPerToken ==
    (nAccess > 0 /\ last.q.st = "ok")
    => /\ Len(last.q.order) = Len(order_by)
       /\ \A i \in 1..Len(last.q.order) :
             /\ last.q.order[i].dir = (IF StartsWith(order_by[i], "-") THEN "desc" ELSE "asc")
             /\ Path(last.q.order[i].cls, last.q.order[i].field) = Unmarked(order_by[i])

====
